---- MODULE Spec2Model ----
(***************************************************************************)
(* Model of the attendance server in src/app.py: employee registration,    *)
(* issue of the time-sliced server-signed QR challenge, and the attendance *)
(* submission handler with its verification pipeline and the per-day       *)
(* check-in / check-out automaton.                                         *)
(*                                                                         *)
(* Cryptography is modelled symbolically: a key pair is named by its       *)
(* public key, a signature is the pair (signing key, signed message), and  *)
(* verification compares both.  The environment can present a signature   *)
(* of the server only over a message the server has signed.                *)
(***************************************************************************)
EXTENDS Integers, Sequences, FiniteSets, TLC

VARIABLES
    now,              \* wall clock, integer seconds (time.time / datetime.now)
    employees,        \* data/employees.json: insertion-ordered dict emp_id -> entry
    attendance,       \* data/attendance.json: list of attendance records
    recent_qr_usage,  \* process-wide dict {emp_id: {slot: timestamp}}
    issued,           \* slots for which a signed QR payload has left the server
    req,              \* request being answered (NoReq when the server is idle)
    resp,             \* JSON response of the request being answered
    threads,          \* request threads of the threaded server: position and locals
    server            \* server process and keys/server_keys.json

vars == <<now, employees, attendance, recent_qr_usage, issued, req, resp, threads, server>>

----------------------------------------------------------------------------
(* Configuration *)

INTERVAL == 10
QR_GRACE_PERIOD == 30
QR_REUSE_WINDOW == 300

\* Python None in a numeric field (out_time, out_timestamp).
None == -1

\* Bound of the model: the ledger is explored up to this many records.
MaxRecords == 2

\* The clock is observed at these offsets (seconds) from the midnight that
\* ends the first day: a slot start one grace period before midnight,
\* midnight itself (start of the next slot and of the next day), and one
\* second later.
ClockOffsets == {-QR_GRACE_PERIOD, 0, 1}
ClockPoints == {86400 + d : d \in ClockOffsets}
StartClock == CHOOSE t \in ClockPoints : \A u \in ClockPoints : t <= u

ServerKey == "Spk"        \* server_public_key_b58
OtherServerKey == "Opk"   \* key of a different server instance
KeyPool == <<"pk1", "pk2", "pk3", "pk4">>   \* n-th key pair produced by generate_ed25519_keypair
OutsiderKey == "pkX"      \* a key pair that was never registered
EmpIds == {"E1", "E2"}

----------------------------------------------------------------------------
(* Cryptography *)

\* sign_message: Ed25519 is deterministic, the signature is a function of
\* the key and the message.
sign_message(key, message) == [by |-> key, msg |-> message]

\* An empty signature string.
EmptySig == [by |-> "", msg |-> <<>>]

\* verify_signature: True iff the signature was made with the private key
\* of public_key over exactly this message; every failure collapses to False.
verify_signature(public_key, message, signature) ==
    /\ signature.by = public_key
    /\ signature.msg = message

----------------------------------------------------------------------------
(* QR code generation *)

\* Variant: the time is not rounded down to a slot.
get_time_slot_Unrounded(t) == t

\* get_time_slot: int(time.time() // INTERVAL) * INTERVAL
get_time_slot(t) == (t \div INTERVAL) * INTERVAL

\* f"attendance:{timestamp}:{server_public_key_b58}"
QrMessage(timestamp, key) == <<"attendance", timestamp, key>>

generate_qr_data(t) ==
    [message |-> QrMessage(get_time_slot(t), ServerKey),
     signature |-> sign_message(ServerKey, QrMessage(get_time_slot(t), ServerKey)),
     timestamp |-> get_time_slot(t),
     server_public_key |-> ServerKey]

----------------------------------------------------------------------------
(* Dates *)

\* Variant: the date is taken once, when the server starts.
CurrentDate_AtStart(t) == StartClock \div 86400

\* now.strftime("%Y-%m-%d"): the calendar day of a timestamp.
CurrentDate(t) == t \div 86400

\* now.strftime("%H:%M:%S"): the time of day of a timestamp.
TimeOfDay(t) == t % 86400

----------------------------------------------------------------------------
(* Requests and responses *)

NoReq == [op |-> "none"]
NoResp == [op |-> "none"]

\* server_qr = {}: every .get() on it yields its default.
EmptyQr == [message |-> <<>>, signature |-> EmptySig, timestamp |-> 0,
            server_public_key |-> ""]

\* jsonify(...) of the attendance POST handler.
AttResp(success, message, action, in_time, out_time, status, age) ==
    [op |-> "attendance", success |-> success, message |-> message,
     action |-> action, in_time |-> in_time, out_time |-> out_time,
     status |-> status, age |-> age]

Fail(message) == AttResp(FALSE, message, "", None, None, "", 0)

\* The "message" texts of the handler's responses.
MissingRequiredData == "Missing required data"
UnknownIdentity == "Employee not registered or invalid key"
WrongServerReason == "Invalid QR code - wrong server"
InvalidChallengeSignature == "Invalid QR code signature"
ChallengeExpired == "QR code expired"     \* followed by "(age: {time_diff}s)"
AlreadyUsed == "QR code already used recently"
InvalidHolderSignature == "Invalid employee signature"
CheckInSuccessful == "Check-in successful"
CheckOutSuccessful == "Check-out successful"
ConfirmationRequired == "Confirm check-out"
AlreadyCheckedOutToday == "Already checked out today"

----------------------------------------------------------------------------
(* POST /api/attendance *)

\* "not employee_public_key or not employee_signature or not server_qr"
MissingData(r) ==
    \/ r.public_key = ""
    \/ r.employee_signature = EmptySig
    \/ r.server_qr = EmptyQr

\* Variant: the loop stops at the first entry whatever its key is, once
\* some entry holds the submitted key.
FindByPublicKey_FirstEntry(emps, public_key) ==
    IF \E i \in 1..Len(emps) : emps[i].public_key = public_key THEN 1 ELSE 0

\* Variant: the loop keeps the last entry that holds the submitted key.
FindByPublicKey_LastMatch(emps, public_key) ==
    LET hits == {i \in 1..Len(emps) : emps[i].public_key = public_key}
    IN IF hits = {} THEN 0 ELSE CHOOSE i \in hits : \A j \in hits : i >= j

\* The loop over employees.items(): index of the first entry, in insertion
\* order, whose public key equals the submitted one; 0 when there is none.
FindByPublicKey(emps, public_key) ==
    LET hits == {i \in 1..Len(emps) : emps[i].public_key = public_key}
    IN IF hits = {} THEN 0 ELSE CHOOSE i \in hits : \A j \in hits : i <= j

\* Variant: the server key named by the challenge is not compared.
WrongServer_Ignored(r) == FALSE

\* qr_server_key != server_public_key_b58
WrongServer(r) == r.server_qr.server_public_key # ServerKey

\* Variant: the challenge signature is verified under the submitted key.
BadQrSignature_HolderKey(r) ==
    ~verify_signature(r.public_key, r.server_qr.message, r.server_qr.signature)

\* not verify_signature(server_public_key_b58, qr_message, qr_signature)
BadQrSignature(r) ==
    ~verify_signature(ServerKey, r.server_qr.message, r.server_qr.signature)

\* time_diff = current_time - qr_timestamp
TimeDiff(r, current_time) == current_time - r.server_qr.timestamp

\* Variant: the upper comparison made with >=, so that an age of exactly
\* QR_GRACE_PERIOD counts as expired.
Expired_AtGrace(r, current_time) ==
    \/ TimeDiff(r, current_time) >= QR_GRACE_PERIOD
    \/ TimeDiff(r, current_time) < -QR_GRACE_PERIOD

\* time_diff > QR_GRACE_PERIOD or time_diff < -QR_GRACE_PERIOD
Expired(r, current_time) ==
    \/ TimeDiff(r, current_time) > QR_GRACE_PERIOD
    \/ TimeDiff(r, current_time) < -QR_GRACE_PERIOD

\* Variant: every submission is taken as a confirmation.
ConfirmRequested_Always(r) == TRUE

\* data.get("confirm_checkout")
ConfirmRequested(r) == r.confirm_checkout

\* Variant: every submission without confirm_checkout counts as a reuse.
ReplayBlocked_NonConfirm(r, emp_id, usage, current_time) ==
    ~ConfirmRequested(r)

\* Variant: the replay test is made on confirm_checkout requests too.
ReplayBlocked_OnConfirm(r, emp_id, usage, current_time) ==
    /\ emp_id \in DOMAIN usage
    /\ get_time_slot(current_time) \in DOMAIN usage[emp_id]
    /\ current_time - usage[emp_id][get_time_slot(current_time)] < QR_REUSE_WINDOW

\* Variant: a use of the slot recorded for any identity blocks.
ReplayBlocked_AnyIdentity(r, emp_id, usage, current_time) ==
    /\ ~ConfirmRequested(r)
    /\ \E e \in DOMAIN usage :
         /\ get_time_slot(current_time) \in DOMAIN usage[e]
         /\ current_time - usage[e][get_time_slot(current_time)] < QR_REUSE_WINDOW

\* Variant: a use recorded exactly QR_REUSE_WINDOW ago still blocks.
ReplayBlocked_Inclusive(r, emp_id, usage, current_time) ==
    /\ ~ConfirmRequested(r)
    /\ emp_id \in DOMAIN usage
    /\ get_time_slot(current_time) \in DOMAIN usage[emp_id]
    /\ current_time - usage[emp_id][get_time_slot(current_time)] <= QR_REUSE_WINDOW

\* The replay test: skipped on confirm_checkout, keyed by the slot of the
\* server clock, blocking while the recorded use is younger than the window.
ReplayBlocked(r, emp_id, usage, current_time) ==
    /\ ~ConfirmRequested(r)
    /\ emp_id \in DOMAIN usage
    /\ get_time_slot(current_time) \in DOMAIN usage[emp_id]
    /\ current_time - usage[emp_id][get_time_slot(current_time)] < QR_REUSE_WINDOW

\* Variant: the holder's signature is not checked.
BadEmployeeSignature_Skipped(r) == FALSE

\* not verify_signature(employee_public_key, qr_message, employee_signature)
BadEmployeeSignature(r) ==
    ~verify_signature(r.public_key, r.server_qr.message, r.employee_signature)

\* Variant: the identity of the record is not compared.
FindRecord_AnyEmployee(att, emp_id, date) ==
    LET hits == {i \in 1..Len(att) : att[i].date = date}
    IN IF hits = {} THEN 0 ELSE CHOOSE i \in hits : \A j \in hits : i <= j

\* Variant: the date of the record is not compared.
FindRecord_AnyDay(att, emp_id, date) ==
    LET hits == {i \in 1..Len(att) : att[i].emp_id = emp_id}
    IN IF hits = {} THEN 0 ELSE CHOOSE i \in hits : \A j \in hits : i <= j

\* Variant: only records that are still open are found.
FindRecord_OpenOnly(att, emp_id, date) ==
    LET hits == {i \in 1..Len(att) : /\ att[i].emp_id = emp_id
                                      /\ att[i].date = date
                                      /\ att[i].out_time = None}
    IN IF hits = {} THEN 0 ELSE CHOOSE i \in hits : \A j \in hits : i <= j

\* Index of the first record of (emp_id, date) in the ledger, 0 when none.
FindRecord(att, emp_id, date) ==
    LET hits == {i \in 1..Len(att) : att[i].emp_id = emp_id /\ att[i].date = date}
    IN IF hits = {} THEN 0 ELSE CHOOSE i \in hits : \A j \in hits : i <= j

\* Variant: the appended record is already closed.
NewRecord_Closed(emp_id, name, t, qr_timestamp) ==
    [emp_id |-> emp_id, employee_name |-> name, date |-> CurrentDate(t),
     in_time |-> TimeOfDay(t), in_timestamp |-> t,
     out_time |-> TimeOfDay(t), out_timestamp |-> t,
     status |-> "Present", qr_timestamp |-> qr_timestamp, verified |-> TRUE]

\* The record appended by a check-in.
NewRecord(emp_id, name, t, qr_timestamp) ==
    [emp_id |-> emp_id, employee_name |-> name, date |-> CurrentDate(t),
     in_time |-> TimeOfDay(t), in_timestamp |-> t,
     out_time |-> None, out_timestamp |-> None,
     status |-> "Present", qr_timestamp |-> qr_timestamp, verified |-> TRUE]

\* "Track QR usage": recent_qr_usage[emp_id][time_slot] = current_time
TrackUsage(usage, emp_id, current_time) ==
    LET slot == get_time_slot(current_time)
        inner == IF emp_id \in DOMAIN usage THEN usage[emp_id] ELSE [x \in {} |-> 0]
        inner2 == [s \in DOMAIN inner \cup {slot} |->
                     IF s = slot THEN current_time ELSE inner[s]]
    IN [e \in DOMAIN usage \cup {emp_id} |-> IF e = emp_id THEN inner2 ELSE usage[e]]

\* Variant: a closed record is taken for an open one.
IsOpen_Always(record) == TRUE

\* existing_record["out_time"] is None
IsOpen(record) == record.out_time = None

\* Variant: closing the record also rewrites its check-in time.
CheckOut_ResetIn(att, i, t) ==
    [att EXCEPT ![i].in_time = TimeOfDay(t),
                ![i].in_timestamp = t,
                ![i].out_time = TimeOfDay(t),
                ![i].out_timestamp = t,
                ![i].status = "Present"]

\* Variant: the record is closed with its check-in time.
CheckOut_AtInTime(att, i, t) ==
    [att EXCEPT ![i].out_time = att[i].in_time,
                ![i].out_timestamp = att[i].in_timestamp,
                ![i].status = "Present"]

\* Variant: every open record of the identity is closed, whatever its date.
CheckOut_AllOpen(att, i, t) ==
    [j \in 1..Len(att) |->
       IF att[j].emp_id = att[i].emp_id /\ att[j].out_time = None
       THEN [att[j] EXCEPT !.out_time = TimeOfDay(t), !.out_timestamp = t,
                           !.status = "Present"]
       ELSE att[j]]

\* Confirmed check-out: the record is closed in place and the ledger saved.
CheckOut(att, i, t) ==
    [att EXCEPT ![i].out_time = TimeOfDay(t),
                ![i].out_timestamp = t,
                ![i].status = "Present"]

\* Variant: a confirm_checkout submission without a record for the day is
\* entered and closed at once.
MarkAttendance_ConfirmCloses(r, emp_id, name, att, t) ==
    LET i == FindRecord(att, emp_id, CurrentDate(t))
    IN IF i # 0
       THEN IF IsOpen(att[i])
            THEN IF ConfirmRequested(r)
                 THEN [resp |-> AttResp(TRUE, CheckOutSuccessful, "check-out",
                                        att[i].in_time,
                                        CheckOut(att, i, t)[i].out_time,
                                        "Present", 0),
                       attendance |-> CheckOut(att, i, t),
                       returned |-> TRUE]
                 ELSE [resp |-> AttResp(FALSE, ConfirmationRequired, "",
                                        att[i].in_time, TimeOfDay(t),
                                        "Pending Check-out", 0),
                       attendance |-> att,
                       returned |-> TRUE]
            ELSE [resp |-> AttResp(FALSE, AlreadyCheckedOutToday, "",
                                   att[i].in_time, att[i].out_time,
                                   "Already Present", 0),
                  attendance |-> att,
                  returned |-> TRUE]
       ELSE LET record == NewRecord(emp_id, name, t, r.server_qr.timestamp)
            IN IF ConfirmRequested(r)
               THEN [resp |-> AttResp(TRUE, CheckOutSuccessful, "check-out",
                                      record.in_time, TimeOfDay(t), "Present", 0),
                     attendance |-> CheckOut(Append(att, record), Len(att) + 1, t),
                     returned |-> TRUE]
               ELSE [resp |-> AttResp(TRUE, CheckInSuccessful, "check-in",
                                      record.in_time, None, "Present", 0),
                     attendance |-> Append(att, record),
                     returned |-> TRUE]

\* The state machine run once every verification has passed.  Yields the
\* response, the ledger as saved, and whether the branch returns.
MarkAttendance(r, emp_id, name, att, t) ==
    LET i == FindRecord(att, emp_id, CurrentDate(t))
    IN IF i # 0
       THEN IF IsOpen(att[i])
            THEN IF ConfirmRequested(r)
                 THEN [resp |-> AttResp(TRUE, CheckOutSuccessful, "check-out",
                                        att[i].in_time,
                                        CheckOut(att, i, t)[i].out_time,
                                        "Present", 0),
                       attendance |-> CheckOut(att, i, t),
                       returned |-> TRUE]
                 ELSE [resp |-> AttResp(FALSE, ConfirmationRequired, "",
                                        att[i].in_time, TimeOfDay(t),
                                        "Pending Check-out", 0),
                       attendance |-> att,
                       returned |-> TRUE]
            ELSE [resp |-> AttResp(FALSE, AlreadyCheckedOutToday, "",
                                   att[i].in_time, att[i].out_time,
                                   "Already Present", 0),
                  attendance |-> att,
                  returned |-> TRUE]
       ELSE LET record == NewRecord(emp_id, name, t, r.server_qr.timestamp)
            IN [resp |-> AttResp(TRUE, CheckInSuccessful, "check-in",
                                 record.in_time, None, "Present", 0),
                attendance |-> Append(att, record),
                returned |-> TRUE]

\* Variant: the freshness test is made before the server-signature test.
AttendancePost_Reordered(r, emps, att, usage, t) ==
    LET e == FindByPublicKey(emps, r.public_key)
        unchanged(m) == [resp |-> m, attendance |-> att, usage |-> usage]
    IN IF MissingData(r) THEN unchanged(Fail(MissingRequiredData))
       ELSE IF e = 0
       THEN unchanged(Fail(UnknownIdentity))
       ELSE IF WrongServer(r)
       THEN unchanged(Fail(WrongServerReason))
       ELSE IF Expired(r, t)
       THEN unchanged(AttResp(FALSE, ChallengeExpired, "", None, None, "",
                              TimeDiff(r, t)))
       ELSE IF BadQrSignature(r)
       THEN unchanged(Fail(InvalidChallengeSignature))
       ELSE IF ReplayBlocked(r, emps[e].emp_id, usage, t)
       THEN unchanged(Fail(AlreadyUsed))
       ELSE IF BadEmployeeSignature(r)
       THEN unchanged(Fail(InvalidHolderSignature))
       ELSE LET m == MarkAttendance(r, emps[e].emp_id, emps[e].name, att, t)
            IN [resp |-> m.resp, attendance |-> m.attendance,
                usage |-> IF m.returned THEN usage
                          ELSE TrackUsage(usage, emps[e].emp_id, t)]

\* The whole POST handler: outcome of request r in the current state.
AttendancePost(r, emps, att, usage, t) ==
    LET e == FindByPublicKey(emps, r.public_key)
        unchanged(m) == [resp |-> m, attendance |-> att, usage |-> usage]
    IN IF MissingData(r) THEN unchanged(Fail(MissingRequiredData))
       ELSE IF e = 0
       THEN unchanged(Fail(UnknownIdentity))
       ELSE IF WrongServer(r)
       THEN unchanged(Fail(WrongServerReason))
       ELSE IF BadQrSignature(r)
       THEN unchanged(Fail(InvalidChallengeSignature))
       ELSE IF Expired(r, t)
       THEN unchanged(AttResp(FALSE, ChallengeExpired, "", None, None, "",
                              TimeDiff(r, t)))
       ELSE IF ReplayBlocked(r, emps[e].emp_id, usage, t)
       THEN unchanged(Fail(AlreadyUsed))
       ELSE IF BadEmployeeSignature(r)
       THEN unchanged(Fail(InvalidHolderSignature))
       ELSE LET m == MarkAttendance(r, emps[e].emp_id, emps[e].name, att, t)
            IN [resp |-> m.resp, attendance |-> m.attendance,
                usage |-> IF m.returned THEN usage
                          ELSE TrackUsage(usage, emps[e].emp_id, t)]

----------------------------------------------------------------------------
(* POST /api/register *)

RegResp(success, message, emp_id, public_key) ==
    [op |-> "register", success |-> success, message |-> message,
     emp_id |-> emp_id, public_key |-> public_key, private_key |-> public_key]

\* generate_ed25519_keypair: a key pair no earlier call has produced.
generate_ed25519_keypair(emps) == KeyPool[Len(emps) + 1]

\* The "message" texts of the registration responses.
FieldsRequired == "Employee ID and Name are required"
DuplicateIdentity == "already registered"       \* "Employee {emp_id} already registered"
RegisteredOk == "registered successfully"       \* "Employee {name} registered successfully"

\* Variant: an existing entry is overwritten with the new key pair.
RegisterWithKey_Overwrite(r, emps, key) ==
    IF r.emp_id = "" \/ r.name = ""
    THEN [resp |-> RegResp(FALSE, FieldsRequired, "", ""), employees |-> emps]
    ELSE [resp |-> RegResp(TRUE, RegisteredOk, r.emp_id, key),
          employees |->
            IF \E i \in 1..Len(emps) : emps[i].emp_id = r.emp_id
            THEN [i \in 1..Len(emps) |->
                    IF emps[i].emp_id = r.emp_id
                    THEN [emp_id |-> r.emp_id, name |-> r.name, public_key |-> key]
                    ELSE emps[i]]
            ELSE Append(emps, [emp_id |-> r.emp_id, name |-> r.name,
                               public_key |-> key])]

\* The registration handler on the registry as loaded, key being the key
\* pair it generates when the token is new: response and registry as saved.
RegisterWithKey(r, emps, key) ==
    IF r.emp_id = "" \/ r.name = ""
    THEN [resp |-> RegResp(FALSE, FieldsRequired, "", ""), employees |-> emps]
    ELSE IF \E i \in 1..Len(emps) : emps[i].emp_id = r.emp_id
    THEN [resp |-> RegResp(FALSE, DuplicateIdentity, r.emp_id, ""),
          employees |-> emps]
    ELSE [resp |-> RegResp(TRUE, RegisteredOk, r.emp_id, key),
          employees |-> Append(emps, [emp_id |-> r.emp_id, name |-> r.name,
                                      public_key |-> key])]

\* The whole registration handler, run without interruption.
RegisterPost(r, emps) == RegisterWithKey(r, emps, generate_ed25519_keypair(emps))

----------------------------------------------------------------------------
(* Inputs *)

RegisterRequests ==
    {[op |-> "register", emp_id |-> e, name |-> n] :
        e \in EmpIds \cup {""}, n \in {"N"}}
    \cup {[op |-> "register", emp_id |-> "E1", name |-> ""]}

\* A challenge as presented: the payload issued for slot s, with each field
\* either as issued or replaced by the submitter.
PresentedQr(s) ==
    {[message |-> QrMessage(s, ServerKey),
      signature |-> sign_message(k, QrMessage(s, ServerKey)),
      timestamp |-> ts,
      server_public_key |-> f] :
        k \in {ServerKey, OtherServerKey},
        f \in {ServerKey, OtherServerKey},
        ts \in {s, now + QR_GRACE_PERIOD, now + QR_GRACE_PERIOD + 1}}

\* The holder's signature: over the presented message, or over another one.
HolderSignatures(key, qr) ==
    {sign_message(key, qr.message),
     sign_message(key, QrMessage(qr.timestamp + INTERVAL, ServerKey))}

AttendanceRequests ==
    {[op |-> "attendance", public_key |-> "", employee_signature |-> EmptySig,
      server_qr |-> EmptyQr, confirm_checkout |-> FALSE]}
    \cup
    UNION {UNION {{[op |-> "attendance", public_key |-> k,
                    employee_signature |-> sg, server_qr |-> qr,
                    confirm_checkout |-> c] :
                      sg \in HolderSignatures(k, qr), c \in BOOLEAN} :
                  qr \in PresentedQr(s), k \in {KeyPool[1], KeyPool[2], OutsiderKey}} :
           s \in issued}

----------------------------------------------------------------------------
(* Server key pair: load_or_create_server_keys *)

\* The private seeds generate_ed25519_keypair yields for the server, in the
\* order of the calls, and the public key of each.
ServerSeedPool == <<"Ssk", "Osk">>

PublicOf(seed) == IF seed = "Ssk" THEN ServerKey ELSE OtherServerKey

\* private_key_b58 as generated: the 32-byte seed followed by the public key.
PrivateKeyFull(seed) == <<seed, PublicOf(seed)>>

NoKeys == [private_key |-> <<>>, public_key |-> ""]

\* Variant: a new key pair is generated and saved at every boot.
load_or_create_server_keys_Regenerate(file_exists, file, generated) ==
    LET seed == ServerSeedPool[IF generated < Len(ServerSeedPool)
                               THEN generated + 1 ELSE 1]
    IN [keys |-> [private_key |-> seed, public_key |-> PublicOf(seed)],
        file |-> [private_key |-> PrivateKeyFull(seed),
                  public_key |-> PublicOf(seed)],
        generated |-> generated + 1]

\* What a boot does, given whether keys/server_keys.json exists, its
\* content, and the number of key pairs generated so far: the module
\* globals server_private_key / server_public_key_b58, and the file after.
load_or_create_server_keys(file_exists, file, generated) ==
    IF file_exists
    THEN [keys |-> [private_key |-> file.private_key[1],   \* private_bytes[:32]
                    public_key |-> file.public_key],
          file |-> file,
          generated |-> generated]
    ELSE LET seed == ServerSeedPool[generated + 1]
         IN [keys |-> [private_key |-> seed, public_key |-> PublicOf(seed)],
             file |-> [private_key |-> PrivateKeyFull(seed),
                       public_key |-> PublicOf(seed)],
             generated |-> generated + 1]

\* generate_qr_data with the module globals keys.
QrDataWith(keys, t) ==
    [message |-> QrMessage(get_time_slot(t), keys.public_key),
     signature |-> sign_message(PublicOf(keys.private_key),
                                QrMessage(get_time_slot(t), keys.public_key)),
     timestamp |-> get_time_slot(t),
     server_public_key |-> keys.public_key]

\* The server as the other specifications take it: booted once, running.
RunningServer ==
    [up |-> TRUE, file_exists |-> TRUE,
     file |-> load_or_create_server_keys(FALSE, NoKeys, 0).file,
     keys |-> load_or_create_server_keys(FALSE, NoKeys, 0).keys,
     generated |-> 1, boots |-> 1, shown |-> {}]

----------------------------------------------------------------------------
(* State machine: requests handled one at a time *)

\* The request threads of the server (app.run serves each request in its
\* own thread).
Procs == {1, 2}

\* A thread that has no request: its locals are unset.
IdleThread ==
    [pc |-> "idle", req |-> NoReq, resp |-> NoResp,
     emps |-> <<>>, att |-> <<>>, key |-> ""]

Init ==
    /\ now = StartClock
    /\ employees = <<>>
    /\ attendance = <<>>
    /\ recent_qr_usage = [x \in {} |-> 0]
    /\ issued = {}
    /\ req = NoReq
    /\ resp = NoResp
    /\ threads = [p \in Procs |-> IdleThread]
    /\ server = RunningServer

\* Time passes while the server is idle.
Tick ==
    /\ req = NoReq
    /\ \E t \in ClockPoints : t > now /\ now' = t
    /\ UNCHANGED <<employees, attendance, recent_qr_usage, issued, req, resp, threads, server>>

\* GET /qr: the QR payload of the current slot leaves the server.
IssueChallenge ==
    /\ req = NoReq
    /\ issued' = issued \cup {generate_qr_data(now).timestamp}
    /\ req' = [op |-> "qr"]
    /\ resp' = [op |-> "qr", qr |-> generate_qr_data(now)]
    /\ UNCHANGED <<now, employees, attendance, recent_qr_usage, threads, server>>

Register ==
    /\ req = NoReq
    /\ \E r \in RegisterRequests :
         /\ req' = r
         /\ resp' = RegisterPost(r, employees).resp
         /\ employees' = RegisterPost(r, employees).employees
    /\ UNCHANGED <<now, attendance, recent_qr_usage, issued, threads, server>>

Submit ==
    /\ req = NoReq
    /\ \E r \in AttendanceRequests :
         LET out == AttendancePost(r, employees, attendance, recent_qr_usage, now)
         IN /\ Len(out.attendance) <= MaxRecords
            /\ req' = r
            /\ resp' = out.resp
            /\ attendance' = out.attendance
            /\ recent_qr_usage' = out.usage
    /\ UNCHANGED <<now, employees, issued, threads, server>>

\* Variant: the listing writes back a ledger without the closed records.
ListAttendance_Pruning ==
    /\ req = NoReq
    /\ req' = [op |-> "list"]
    /\ resp' = [op |-> "list", success |-> TRUE, records |-> attendance]
    /\ attendance' = SelectSeq(attendance, IsOpen)
    /\ UNCHANGED <<now, employees, recent_qr_usage, issued, threads, server>>

\* GET /api/attendance
ListAttendance ==
    /\ req = NoReq
    /\ req' = [op |-> "list"]
    /\ resp' = [op |-> "list", success |-> TRUE, records |-> attendance]
    /\ UNCHANGED <<now, employees, attendance, recent_qr_usage, issued, threads, server>>

\* The response is delivered; the server is idle again.
Respond ==
    /\ req # NoReq
    /\ req' = NoReq
    /\ resp' = NoResp
    /\ UNCHANGED <<now, employees, attendance, recent_qr_usage, issued, threads, server>>

Next ==
    \/ Tick
    \/ IssueChallenge
    \/ Register
    \/ Submit
    \/ ListAttendance
    \/ Respond

Spec == Init /\ [][Next]_vars

----------------------------------------------------------------------------
(* State machine: two requests handled by concurrent threads.  The handlers *)
(* take no lock; each load_json_file and each save_json_file is one step,   *)
(* and what a handler does between them works on its own copy of the file.  *)

\* The registry and the ledger when the two requests arrive: E1 registered,
\* E2 registered or not, and no record yet or E1 checked in.
ConcEmployees ==
    {<<[emp_id |-> "E1", name |-> "N", public_key |-> KeyPool[1]]>>,
     <<[emp_id |-> "E1", name |-> "N", public_key |-> KeyPool[1]],
       [emp_id |-> "E2", name |-> "N", public_key |-> KeyPool[2]]>>}

ConcAttendance ==
    {<<>>, <<NewRecord("E1", "N", StartClock, get_time_slot(StartClock))>>}

ConcInit ==
    /\ now = StartClock
    /\ employees \in ConcEmployees
    /\ attendance \in ConcAttendance
    /\ recent_qr_usage = [x \in {} |-> 0]
    /\ issued = {generate_qr_data(StartClock).timestamp}
    /\ req = NoReq
    /\ resp = NoResp
    /\ threads = [p \in Procs |-> IdleThread]
    /\ server = RunningServer

\* The requests of the two clients: registrations of E2, and submissions by
\* the holders of the first two keys with the challenge on display.
ConcRegisterRequests ==
    {[op |-> "register", emp_id |-> "E2", name |-> n] : n \in {"N", ""}}

ConcAttendanceRequests ==
    {[op |-> "attendance", public_key |-> k,
      employee_signature |-> sign_message(k, generate_qr_data(now).message),
      server_qr |-> generate_qr_data(now), confirm_checkout |-> c] :
        k \in {KeyPool[1], KeyPool[2]}, c \in BOOLEAN}

\* generate_ed25519_keypair in a thread: a key pair that is neither in the
\* registry nor held by another thread.
FreshKey ==
    LET used == {employees[i].public_key : i \in 1..Len(employees)}
                  \cup {threads[p].key : p \in Procs}
    IN KeyPool[CHOOSE n \in 1..Len(KeyPool) :
                 /\ KeyPool[n] \notin used
                 /\ \A m \in 1..(n - 1) : KeyPool[m] \in used]

\* The checks that precede the ledger let request r through: on an empty
\* ledger the handler would answer with a check-in.
PassesChecks(r, emps, usage, t) ==
    AttendancePost(r, emps, <<>>, usage, t).resp.message = CheckInSuccessful

\* api_register up to load_employees(): the fields are tested and the
\* registry is read.
ThreadRegisterLoad(p) ==
    /\ threads[p].pc = "idle"
    /\ \E r \in ConcRegisterRequests :
         threads' = [threads EXCEPT ![p] =
            IF r.emp_id = "" \/ r.name = ""
            THEN [@ EXCEPT !.pc = "done", !.req = r,
                           !.resp = RegisterWithKey(r, <<>>, "").resp]
            ELSE [@ EXCEPT !.pc = "reg_loaded", !.req = r, !.emps = employees]]
    /\ UNCHANGED <<now, employees, attendance, recent_qr_usage, issued, req, resp, server>>

\* api_register from the duplicate test to the response: the entry is added
\* to the registry as loaded and the whole registry is written back.
ThreadRegisterSave(p) ==
    /\ threads[p].pc = "reg_loaded"
    /\ LET th == threads[p]
           isNew == \A i \in 1..Len(th.emps) : th.emps[i].emp_id # th.req.emp_id
           key == IF isNew THEN FreshKey ELSE ""
           out == RegisterWithKey(th.req, th.emps, key)
       IN /\ employees' = IF out.resp.success THEN out.employees ELSE employees
          /\ threads' = [threads EXCEPT ![p] =
                [@ EXCEPT !.pc = "done", !.resp = out.resp, !.key = key]]
    /\ UNCHANGED <<now, attendance, recent_qr_usage, issued, req, resp, server>>

\* api_attendance up to the holder-signature test: the registry is read and
\* the request is verified; a request that fails is answered at once.
ThreadVerify(p) ==
    /\ threads[p].pc = "idle"
    /\ \E r \in ConcAttendanceRequests :
         threads' = [threads EXCEPT ![p] =
            IF PassesChecks(r, employees, recent_qr_usage, now)
            THEN [@ EXCEPT !.pc = "verified", !.req = r, !.emps = employees]
            ELSE [@ EXCEPT !.pc = "done", !.req = r,
                    !.resp = AttendancePost(r, employees, <<>>,
                                            recent_qr_usage, now).resp]]
    /\ UNCHANGED <<now, employees, attendance, recent_qr_usage, issued, req, resp, server>>

\* attendance = load_attendance(): the thread takes its copy of the ledger.
ThreadLoadAttendance(p) ==
    /\ threads[p].pc = "verified"
    /\ threads' = [threads EXCEPT ![p] =
          [@ EXCEPT !.pc = "att_loaded", !.att = attendance]]
    /\ UNCHANGED <<now, employees, attendance, recent_qr_usage, issued, req, resp, server>>

\* The record search and the branch taken on the thread's copy; check-in
\* and check-out end with save_attendance(attendance), which writes the
\* whole copy over the file.
ThreadMarkAttendance(p) ==
    /\ threads[p].pc = "att_loaded"
    /\ LET th == threads[p]
           out == AttendancePost(th.req, th.emps, th.att, recent_qr_usage, now)
       IN /\ attendance' = IF out.resp.success THEN out.attendance ELSE attendance
          /\ recent_qr_usage' = out.usage
          /\ threads' = [threads EXCEPT ![p] =
                [@ EXCEPT !.pc = "done", !.resp = out.resp]]
    /\ UNCHANGED <<now, employees, issued, req, resp, server>>

ConcNext ==
    \E p \in Procs :
      \/ ThreadRegisterLoad(p)
      \/ ThreadRegisterSave(p)
      \/ ThreadVerify(p)
      \/ ThreadLoadAttendance(p)
      \/ ThreadMarkAttendance(p)

SpecConc == ConcInit /\ [][ConcNext]_vars

----------------------------------------------------------------------------
(* State machine: POST /api/attendance on request bodies as they arrive.    *)
(* A JSON value has a kind; the handler reads the body with .get() and      *)
(* applies string, dictionary and integer operations to what it finds.      *)

\* HTTP 500: an exception left the handler (no JSON body, no reason).
InternalServerError == "Internal Server Error"

Fault == Fail(InternalServerError)

\* A base-58 string that decodes to no signature (or does not decode); any
\* non-empty JSON value that is not a string behaves the same in
\* verify_signature.
MalformedSig == [by |-> "0OIl", msg |-> <<>>]

\* A public key that is not base-58.
MalformedKey == "0OIl"

\* Request bodies.  *_kind is the JSON type of the field ("absent" when the
\* field is missing); the field itself holds the value when it is of the
\* expected type.
WireRequests ==
    {[op |-> "post", body_kind |-> b,
      public_key_kind |-> pk[1], public_key |-> pk[2],
      employee_signature |-> sg,
      server_qr_kind |-> q[1], server_qr |-> q[2],
      timestamp_kind |-> q[3], confirm_checkout |-> FALSE] :
        b \in {"object", "array"},
        pk \in {<<"string", KeyPool[1]>>, <<"string", MalformedKey>>,
                <<"number", "">>, <<"absent", "">>},
        sg \in {sign_message(KeyPool[1], generate_qr_data(now).message),
                MalformedSig, EmptySig},
        q \in {<<"absent", EmptyQr, "absent">>,
               <<"string", EmptyQr, "absent">>}
              \cup {<<"object", [generate_qr_data(now) EXCEPT !.signature = qs],
                      tk>> :
                      qs \in {generate_qr_data(now).signature, MalformedSig},
                      tk \in {"int", "string", "absent"}}}

\* The request the handler works on once every .get() has succeeded:
\* server_qr.get("timestamp", 0) yields 0 for a missing field.
WireDecode(w) ==
    [op |-> "attendance", public_key |-> w.public_key,
     employee_signature |-> w.employee_signature,
     server_qr |-> IF w.timestamp_kind = "int" THEN w.server_qr
                   ELSE [w.server_qr EXCEPT !.timestamp = 0],
     confirm_checkout |-> w.confirm_checkout]

\* The POST handler on a request body, statement by statement up to the
\* freshness test: data.get on a body that is not an object, .strip() on a
\* public_key that is not a string, server_qr.get on a server_qr that is not
\* an object, and current_time - qr_timestamp on a timestamp that is not a
\* number, raise; nothing in the handler catches them.
WireAttendancePost(w, emps, att, usage, t) ==
    LET r == WireDecode(w)
        e == FindByPublicKey(emps, r.public_key)
        unchanged(m) == [resp |-> m, attendance |-> att, usage |-> usage]
    IN IF w.body_kind # "object" THEN unchanged(Fault)
       ELSE IF w.public_key_kind = "number" THEN unchanged(Fault)
       ELSE IF \/ r.public_key = ""
               \/ r.employee_signature = EmptySig
               \/ w.server_qr_kind = "absent"
       THEN unchanged(Fail(MissingRequiredData))
       ELSE IF e = 0 THEN unchanged(Fail(UnknownIdentity))
       ELSE IF w.server_qr_kind # "object" THEN unchanged(Fault)
       ELSE IF WrongServer(r) THEN unchanged(Fail(WrongServerReason))
       ELSE IF BadQrSignature(r) THEN unchanged(Fail(InvalidChallengeSignature))
       ELSE IF w.timestamp_kind = "string" THEN unchanged(Fault)
       ELSE AttendancePost(r, emps, att, usage, t)

WireInit ==
    /\ now = StartClock
    /\ employees = <<[emp_id |-> "E1", name |-> "N", public_key |-> KeyPool[1]]>>
    /\ attendance \in ConcAttendance
    /\ recent_qr_usage = [x \in {} |-> 0]
    /\ issued = {generate_qr_data(StartClock).timestamp}
    /\ req = NoReq
    /\ resp = NoResp
    /\ threads = [p \in Procs |-> IdleThread]
    /\ server = RunningServer

WireSubmit ==
    /\ req = NoReq
    /\ \E w \in WireRequests :
         LET out == WireAttendancePost(w, employees, attendance,
                                       recent_qr_usage, now)
         IN /\ req' = w
            /\ resp' = out.resp
            /\ attendance' = out.attendance
            /\ recent_qr_usage' = out.usage
    /\ UNCHANGED <<now, employees, issued, threads, server>>

WireNext ==
    \/ WireSubmit
    \/ Respond

SpecWire == WireInit /\ [][WireNext]_vars

----------------------------------------------------------------------------
(* State machine: the server process is started and stopped; the key file   *)
(* keys/server_keys.json outlives the process.                              *)

\* Boots of the process per key file.
MaxBoots == 3

\* The module globals while no process runs.
NoMemoryKeys == [private_key |-> "", public_key |-> ""]

BootInit ==
    /\ now = StartClock
    /\ employees = <<>>
    /\ attendance = <<>>
    /\ recent_qr_usage = [x \in {} |-> 0]
    /\ issued = {}
    /\ req = NoReq
    /\ resp = NoResp
    /\ threads = [p \in Procs |-> IdleThread]
    /\ server = [up |-> FALSE, file_exists |-> FALSE, file |-> NoKeys,
                 keys |-> NoMemoryKeys, generated |-> 0, boots |-> 0,
                 shown |-> {}]

\* python app.py: the module is executed, load_or_create_server_keys() runs.
Boot ==
    /\ ~server.up
    /\ server.boots < MaxBoots
    /\ server.file_exists \/ server.generated < Len(ServerSeedPool)
    /\ LET out == load_or_create_server_keys(server.file_exists, server.file,
                                             server.generated)
       IN server' = [server EXCEPT !.up = TRUE, !.file_exists = TRUE,
                                   !.file = out.file, !.keys = out.keys,
                                   !.generated = out.generated,
                                   !.boots = @ + 1]
    /\ UNCHANGED <<now, employees, attendance, recent_qr_usage, issued, req, resp, threads>>

\* The process ends; its globals are gone, the file stays.
Shutdown ==
    /\ server.up
    /\ server' = [server EXCEPT !.up = FALSE, !.keys = NoMemoryKeys]
    /\ UNCHANGED <<now, employees, attendance, recent_qr_usage, issued, req, resp, threads>>

\* The operator deletes keys/server_keys.json between two runs; the
\* challenges shown under it are forgotten.
RemoveKeysFile ==
    /\ ~server.up
    /\ server.file_exists
    /\ server.generated < Len(ServerSeedPool)
    /\ server' = [server EXCEPT !.file_exists = FALSE, !.file = NoKeys,
                                !.boots = 0, !.shown = {}]
    /\ UNCHANGED <<now, employees, attendance, recent_qr_usage, issued, req, resp, threads>>

\* GET /qr on the running process: the challenge of the current slot is
\* displayed (remembered with the boot it was issued in).
ShowQr ==
    /\ server.up
    /\ server' = [server EXCEPT !.shown =
                    @ \cup {[qr |-> QrDataWith(server.keys, now),
                             boot |-> server.boots]}]
    /\ UNCHANGED <<now, employees, attendance, recent_qr_usage, issued, req, resp, threads>>

BootNext ==
    \/ Boot
    \/ Shutdown
    \/ RemoveKeysFile
    \/ ShowQr
    \/ Tick

SpecBoot == BootInit /\ [][BootNext]_vars

----------------------------------------------------------------------------
(* State machine: the handlers as functions of the state they find.  The    *)
(* clock, the ledger and the content of recent_qr_usage are drawn from      *)
(* bounded sets, and one request is answered.  No handler ever stores an    *)
(* entry in recent_qr_usage, so what the lookup at lines 1553-1561 does     *)
(* with an entry can only be examined on contents given to it.              *)

\* Times of the request: the start, the middle and the end of one slot, and
\* the start of the next.
GuardClock ==
    {86400 + d : d \in {0, INTERVAL \div 2, INTERVAL - 1, INTERVAL}}

\* Ages of the entry found in recent_qr_usage.
GuardAges == {0, QR_REUSE_WINDOW - 1, QR_REUSE_WINDOW, QR_REUSE_WINDOW + 1}

\* recent_qr_usage: empty, or one entry of E1 for the slot of the clock or
\* for the slot before.
GuardContents(t) ==
    {[x \in {} |-> 0]}
    \cup {[e \in {"E1"} |-> [k \in {get_time_slot(t) - back} |-> t - age]] :
            back \in {0, INTERVAL}, age \in GuardAges}

\* The ledger: empty, or E1 checked in today.
GuardLedgers ==
    {<<>>, <<NewRecord("E1", "N", 86400, get_time_slot(86400))>>}

\* The challenges that have left the server: the one of the current slot and
\* one that is older than the whole validity window.
GuardIssued(t) ==
    {get_time_slot(t),
     get_time_slot(t) - 2 * (2 * QR_GRACE_PERIOD + INTERVAL)}

GuardInit ==
    /\ now \in GuardClock
    /\ employees = <<[emp_id |-> "E1", name |-> "N", public_key |-> KeyPool[1]],
                     [emp_id |-> "E2", name |-> "N", public_key |-> KeyPool[2]]>>
    /\ attendance \in GuardLedgers
    /\ recent_qr_usage \in GuardContents(now)
    /\ issued = GuardIssued(now)
    /\ req = NoReq
    /\ resp = NoResp
    /\ threads = [p \in Procs |-> IdleThread]
    /\ server = RunningServer

GuardNext ==
    \/ Submit
    \/ IssueChallenge
    \/ Respond

SpecGuard == GuardInit /\ [][GuardNext]_vars

----------------------------------------------------------------------------
(* State machine: submissions against a registry file in which two entries  *)
(* may hold the same public key.  api_register gives every entry a key of   *)
(* its own; employees.json is read anew by every request and nothing checks *)
(* that its keys are distinct, so the lookup is examined on such files.     *)

RegistryEntry(emp_id, key) == [emp_id |-> emp_id, name |-> "N", public_key |-> key]

\* employees.json, entries in insertion order (the order of registration).
RegistryContents ==
    {<<RegistryEntry("E1", KeyPool[1]), RegistryEntry("E2", KeyPool[1])>>,
     <<RegistryEntry("E2", KeyPool[1]), RegistryEntry("E1", KeyPool[1])>>,
     <<RegistryEntry("E1", KeyPool[1]), RegistryEntry("E2", KeyPool[2])>>}

RegistryInit ==
    /\ now = StartClock
    /\ employees \in RegistryContents
    /\ attendance = <<>>
    /\ recent_qr_usage = [x \in {} |-> 0]
    /\ issued = {generate_qr_data(StartClock).timestamp}
    /\ req = NoReq
    /\ resp = NoResp
    /\ threads = [p \in Procs |-> IdleThread]
    /\ server = RunningServer

RegistryNext ==
    \/ Submit
    \/ Respond

SpecRegistry == RegistryInit /\ [][RegistryNext]_vars

----------------------------------------------------------------------------
(* Vocabulary of the properties.  The checks are restated here from the     *)
(* request and the state, independently of the handler's own predicates.   *)

Abs(x) == IF x < 0 THEN -x ELSE x

IsSubmit(r) == r.op = "attendance"

Registered(r) == \E i \in 1..Len(employees) : employees[i].public_key = r.public_key

\* The identity the submitted public key resolves to.
HolderOf(r) == employees[FindByPublicKey(employees, r.public_key)].emp_id

ServerOriginOk(r) == r.server_qr.server_public_key = ServerKey

ServerSignatureOk(r) ==
    r.server_qr.signature = sign_message(ServerKey, r.server_qr.message)

HolderSignatureOk(r) ==
    r.employee_signature = sign_message(r.public_key, r.server_qr.message)

Fresh(r) == Abs(now - r.server_qr.timestamp) <= QR_GRACE_PERIOD

\* The slot embedded in the signed message "attendance:<slot>:<key>".
MessageSlot(message) == message[2]

\* C1: for a submission whose holder key is registered and whose challenge
\* passes the server-origin and server-signature checks, the answer is
\* "QR code expired" exactly when |now - slotStart| > QR_GRACE_PERIOD, and the
\* reported age is now - slotStart.
C1_FreshnessWindow ==
    (/\ IsSubmit(req)
     /\ ~MissingData(req)
     /\ Registered(req)
     /\ ServerOriginOk(req)
     /\ ServerSignatureOk(req))
    => /\ (resp.message = ChallengeExpired) <=> ~Fresh(req)
       /\ resp.message = ChallengeExpired => resp.age = now - req.server_qr.timestamp

\* C1 witness: an unmodified challenge presented exactly QR_GRACE_PERIOD
\* seconds after its slot start is accepted and checks the holder in.
C1_Witness ==
    /\ IsSubmit(req)
    /\ req.server_qr = generate_qr_data(req.server_qr.timestamp)
    /\ now = req.server_qr.timestamp + QR_GRACE_PERIOD
    /\ resp.action = "check-in"

\* Further cases of C1 that are reached: rejection one second past the
\* window, and acceptance at the lower edge now = S - QR_GRACE_PERIOD.
C1_ReachedExpired ==
    /\ IsSubmit(req)
    /\ req.server_qr = generate_qr_data(req.server_qr.timestamp)
    /\ now = req.server_qr.timestamp + QR_GRACE_PERIOD + 1
    /\ resp.message = ChallengeExpired

C1_ReachedLowerEdge ==
    /\ IsSubmit(req)
    /\ now = req.server_qr.timestamp - QR_GRACE_PERIOD
    /\ resp.success

\* C2: once an identity has checked in with the challenge of slot S, the
\* same unmodified, fully valid challenge submitted again by that identity
\* within QR_REUSE_WINDOW, without confirm_checkout, is answered
\* "QR code already used recently".
C2_SecondUseRejected ==
    (/\ IsSubmit(req)
     /\ ~MissingData(req)
     /\ Registered(req)
     /\ req.server_qr = generate_qr_data(req.server_qr.timestamp)
     /\ Fresh(req)
     /\ HolderSignatureOk(req)
     /\ ~req.confirm_checkout
     /\ resp.action # "check-in"
     /\ \E i \in 1..Len(attendance) :
          /\ attendance[i].emp_id = HolderOf(req)
          /\ attendance[i].qr_timestamp = req.server_qr.timestamp
          /\ now - attendance[i].in_timestamp < QR_REUSE_WINDOW)
    => resp.message = AlreadyUsed

\* C3: every change of the attendance ledger is made by a submission whose
\* holder key is registered, whose challenge signature verifies under the
\* server key and whose holder signature verifies under the holder key, both
\* over the same challenge message.
C3_DualSignature ==
    [][attendance' # attendance =>
         /\ IsSubmit(req')
         /\ Registered(req')
         /\ verify_signature(ServerKey, req'.server_qr.message,
                             req'.server_qr.signature)
         /\ verify_signature(req'.public_key, req'.server_qr.message,
                             req'.employee_signature)]_vars

\* C3 witness: a record has been closed by a doubly signed submission.
C3_Witness ==
    /\ IsSubmit(req)
    /\ resp.action = "check-out"
    /\ ServerSignatureOk(req)
    /\ HolderSignatureOk(req)
    /\ \E i \in 1..Len(attendance) :
         attendance[i].emp_id = HolderOf(req) /\ attendance[i].out_timestamp = now

\* C4: no check-in or check-out happens at a time more than QR_GRACE_PERIOD
\* away from the slot embedded in the server-signed challenge message,
\* whatever the other fields of the presented challenge are.
C4_SignedSlotWithinGrace ==
    (/\ IsSubmit(req)
     /\ resp.success
     /\ ServerSignatureOk(req))
    => Abs(now - MessageSlot(req.server_qr.message)) <= QR_GRACE_PERIOD

\* The six failure reasons of the verification pipeline, in order.
PipelineReasons ==
    <<UnknownIdentity, WrongServerReason, InvalidChallengeSignature,
      ChallengeExpired, AlreadyUsed, InvalidHolderSignature>>

\* C5: the answer to a submission is the reason of the first failing check
\* in the order unknown identity, wrong server, invalid challenge signature,
\* expired, already used, invalid holder signature; none of these reasons
\* is reported when every check passes, and the six reasons are distinct.
C5_FirstFailureReported ==
    (IsSubmit(req) /\ ~MissingData(req)) =>
       /\ ~Registered(req) => resp.message = UnknownIdentity
       /\ (Registered(req) /\ ~ServerOriginOk(req))
            => resp.message = WrongServerReason
       /\ (Registered(req) /\ ServerOriginOk(req) /\ ~ServerSignatureOk(req))
            => resp.message = InvalidChallengeSignature
       /\ (Registered(req) /\ ServerOriginOk(req) /\ ServerSignatureOk(req)
           /\ ~Fresh(req))
            => resp.message = ChallengeExpired
       /\ (Registered(req) /\ ServerOriginOk(req) /\ ServerSignatureOk(req)
           /\ Fresh(req)
           /\ ReplayBlocked(req, HolderOf(req), recent_qr_usage, now))
            => resp.message = AlreadyUsed
       /\ (Registered(req) /\ ServerOriginOk(req) /\ ServerSignatureOk(req)
           /\ Fresh(req)
           /\ ~ReplayBlocked(req, HolderOf(req), recent_qr_usage, now)
           /\ ~HolderSignatureOk(req))
            => resp.message = InvalidHolderSignature
       /\ (Registered(req) /\ ServerOriginOk(req) /\ ServerSignatureOk(req)
           /\ Fresh(req)
           /\ ~ReplayBlocked(req, HolderOf(req), recent_qr_usage, now)
           /\ HolderSignatureOk(req))
            => \A n \in 1..Len(PipelineReasons) : resp.message # PipelineReasons[n]
       /\ \A m, n \in 1..Len(PipelineReasons) :
            m # n => PipelineReasons[m] # PipelineReasons[n]

\* C5 witness: a submission from a registered holder that fails the
\* server-signature, freshness and holder-signature checks at once is
\* answered with the server-signature reason alone.
C5_Witness ==
    /\ IsSubmit(req)
    /\ Registered(req)
    /\ ServerOriginOk(req)
    /\ ~ServerSignatureOk(req)
    /\ ~Fresh(req)
    /\ ~HolderSignatureOk(req)
    /\ resp.message = InvalidChallengeSignature

\* A submission that passes the six verification checks.
VerificationPasses(r) ==
    /\ ~MissingData(r)
    /\ Registered(r)
    /\ ServerOriginOk(r)
    /\ ServerSignatureOk(r)
    /\ Fresh(r)
    /\ ~ReplayBlocked(r, HolderOf(r), recent_qr_usage, now)
    /\ HolderSignatureOk(r)

\* Positions of the ledger records of an identity for the current day.
TodayRecords(emp_id) ==
    {i \in 1..Len(attendance) :
        attendance[i].emp_id = emp_id /\ attendance[i].date = CurrentDate(now)}

HasOpenRecordToday(emp_id) ==
    \E i \in TodayRecords(emp_id) : attendance[i].out_time = None

HasClosedRecordToday(emp_id) ==
    \E i \in TodayRecords(emp_id) : attendance[i].out_time # None

\* C6: a submission that is rejected for missing fields or fails any of the
\* six checks is answered without success and leaves the attendance ledger
\* and the identity registry unchanged.
C6_FailureChangesNothing ==
    [][(IsSubmit(req') /\ ~VerificationPasses(req')) =>
         /\ ~resp'.success
         /\ attendance' = attendance
         /\ employees' = employees]_vars

\* C6 witness: a confirm_checkout submission for an identity with an open
\* record fails only the holder-signature check, and the record is still open.
C6_Witness ==
    /\ IsSubmit(req)
    /\ Registered(req)
    /\ ServerOriginOk(req)
    /\ ServerSignatureOk(req)
    /\ Fresh(req)
    /\ ~HolderSignatureOk(req)
    /\ req.confirm_checkout
    /\ resp.message = InvalidHolderSignature
    /\ HasOpenRecordToday(HolderOf(req))

\* C7: when the identity has no record for the current day and a submission
\* passes every check, exactly one record is appended for (identity, today)
\* with in-time now and no out-time, the earlier records are kept, and the
\* answer is success with action check-in.
C7_CheckIn ==
    [][(/\ IsSubmit(req')
        /\ VerificationPasses(req')
        /\ TodayRecords(HolderOf(req')) = {}) =>
         /\ resp'.success
         /\ resp'.action = "check-in"
         /\ resp'.in_time = TimeOfDay(now)
         /\ Len(attendance') = Len(attendance) + 1
         /\ SubSeq(attendance', 1, Len(attendance)) = attendance
         /\ attendance'[Len(attendance')].emp_id = HolderOf(req')
         /\ attendance'[Len(attendance')].date = CurrentDate(now)
         /\ attendance'[Len(attendance')].in_timestamp = now
         /\ attendance'[Len(attendance')].in_time = TimeOfDay(now)
         /\ attendance'[Len(attendance')].out_time = None
         /\ attendance'[Len(attendance')].out_timestamp = None]_vars

\* C7 witness: a second identity has just been checked in, its record is the
\* last of the ledger.
C7_Witness ==
    /\ IsSubmit(req)
    /\ resp.action = "check-in"
    /\ Len(attendance) = 2
    /\ attendance[2].emp_id = HolderOf(req)
    /\ attendance[2].in_timestamp = now
    /\ attendance[1].emp_id # attendance[2].emp_id

\* C8: when the identity has an open record for today and a submission
\* without confirm_checkout passes every check, the answer is the soft status
\* "Confirm check-out" (no success) with the tentative out-time, and the
\* ledger is unchanged.
C8_PendingCheckOut ==
    [][(/\ IsSubmit(req')
        /\ VerificationPasses(req')
        /\ ~req'.confirm_checkout
        /\ HasOpenRecordToday(HolderOf(req'))) =>
         /\ ~resp'.success
         /\ resp'.message = ConfirmationRequired
         /\ resp'.out_time = TimeOfDay(now)
         /\ attendance' = attendance]_vars

\* C8 witness: "Confirm check-out" has been answered and the record of the
\* holder is still open.
C8_Witness ==
    /\ IsSubmit(req)
    /\ ~req.confirm_checkout
    /\ resp.message = ConfirmationRequired
    /\ HasOpenRecordToday(HolderOf(req))

\* C9: when the identity has an open record for today and a submission with
\* confirm_checkout passes verification, that record gets out-time now, no
\* other record changes, and the answer is success with action check-out.
C9_ConfirmedCheckOut ==
    [][(/\ IsSubmit(req')
        /\ VerificationPasses(req')
        /\ req'.confirm_checkout
        /\ HasOpenRecordToday(HolderOf(req'))) =>
         /\ resp'.success
         /\ resp'.action = "check-out"
         /\ resp'.out_time = TimeOfDay(now)
         /\ Len(attendance') = Len(attendance)
         /\ \A i \in 1..Len(attendance) :
              IF i \in TodayRecords(HolderOf(req'))
              THEN attendance'[i] =
                     [attendance[i] EXCEPT !.out_time = TimeOfDay(now),
                                           !.out_timestamp = now]
              ELSE attendance'[i] = attendance[i]]_vars

\* C9 witness: a record opened with the challenge of one slot has been
\* closed, at a later time, with the unmodified challenge of another slot.
C9_Witness ==
    /\ IsSubmit(req)
    /\ resp.action = "check-out"
    /\ req.server_qr = generate_qr_data(req.server_qr.timestamp)
    /\ \E i \in TodayRecords(HolderOf(req)) :
         /\ attendance[i].qr_timestamp # req.server_qr.timestamp
         /\ attendance[i].out_timestamp = now
         /\ attendance[i].in_timestamp < now

\* C10: once the record of (identity, today) has an out-time, every further
\* submission of that identity that passes verification, with or without
\* confirm_checkout, is answered "Already checked out today" and leaves the
\* ledger unchanged.
C10_CheckedOutIsTerminal ==
    [][(/\ IsSubmit(req')
        /\ VerificationPasses(req')
        /\ HasClosedRecordToday(HolderOf(req'))) =>
         /\ ~resp'.success
         /\ resp'.message = AlreadyCheckedOutToday
         /\ attendance' = attendance]_vars

\* C10 witness: a confirm_checkout submission made after the check-out, at
\* a later time, has been answered "Already checked out today".
C10_Witness ==
    /\ IsSubmit(req)
    /\ req.confirm_checkout
    /\ resp.message = AlreadyCheckedOutToday
    /\ \E i \in TodayRecords(HolderOf(req)) :
         attendance[i].out_time # None /\ attendance[i].out_timestamp < now

\* A submission whose holder key is registered, whose challenge names and
\* is signed by this server and is fresh, and whose holder signature is good.
FullyValid(r) ==
    /\ ~MissingData(r)
    /\ Registered(r)
    /\ ServerOriginOk(r)
    /\ ServerSignatureOk(r)
    /\ Fresh(r)
    /\ HolderSignatureOk(r)

C11_ReachedLaterSlot ==
    /\ IsSubmit(req)
    /\ ~req.confirm_checkout
    /\ req.server_qr = generate_qr_data(req.server_qr.timestamp)
    /\ resp.message = ConfirmationRequired
    /\ \E i \in TodayRecords(HolderOf(req)) :
         attendance[i].qr_timestamp < req.server_qr.timestamp

\* C12: the ledger holds at most one record per (identity, date).
C12_OneRecordPerDay ==
    \A i, j \in 1..Len(attendance) :
        (attendance[i].emp_id = attendance[j].emp_id
         /\ attendance[i].date = attendance[j].date) => i = j

\* C12 witness: one identity has two records, one for each of two days, the
\* first of them closed.
C12_Witness ==
    /\ Len(attendance) = 2
    /\ attendance[1].emp_id = attendance[2].emp_id
    /\ attendance[1].date # attendance[2].date
    /\ attendance[1].out_time # None

\* C15: a record is never removed from the ledger, its identity, date and
\* in-time never change, and its out-time changes only from none to a
\* value, by a confirm_checkout submission.
C15_RecordLifecycle ==
    [][/\ Len(attendance') >= Len(attendance)
       /\ \A i \in 1..Len(attendance) :
            /\ attendance'[i].emp_id = attendance[i].emp_id
            /\ attendance'[i].date = attendance[i].date
            /\ attendance'[i].in_time = attendance[i].in_time
            /\ attendance'[i].in_timestamp = attendance[i].in_timestamp
            /\ attendance[i].out_time # None =>
                 /\ attendance'[i].out_time = attendance[i].out_time
                 /\ attendance'[i].out_timestamp = attendance[i].out_timestamp
            /\ attendance'[i].out_time # attendance[i].out_time =>
                 /\ IsSubmit(req')
                 /\ req'.confirm_checkout
                 /\ resp'.action = "check-out"]_vars

\* C15 witness: a record checked in at one time and closed at a later one
\* survives a further confirm_checkout submission with both times intact.
C15_Witness ==
    /\ IsSubmit(req)
    /\ req.confirm_checkout
    /\ ~resp.success
    /\ FullyValid(req)
    /\ \E i \in TodayRecords(HolderOf(req)) :
         /\ attendance[i].in_timestamp < attendance[i].out_timestamp
         /\ resp.in_time = attendance[i].in_time
         /\ resp.out_time = attendance[i].out_time

\* C16: once the day has rolled over, an identity whose record of an
\* earlier day is closed is checked in again by its first verified
\* submission: a record for the new date is appended, the old record is
\* kept, and the answer is not "Already checked out today".
C16_NewDayRestarts ==
    [][(/\ IsSubmit(req')
        /\ VerificationPasses(req')
        /\ TodayRecords(HolderOf(req')) = {}
        /\ \E i \in 1..Len(attendance) :
             /\ attendance[i].emp_id = HolderOf(req')
             /\ attendance[i].date < CurrentDate(now)
             /\ attendance[i].out_time # None) =>
         /\ resp'.action = "check-in"
         /\ resp'.message # AlreadyCheckedOutToday
         /\ Len(attendance') = Len(attendance) + 1
         /\ attendance'[Len(attendance')].date = CurrentDate(now)
         /\ attendance'[Len(attendance')].emp_id = HolderOf(req')
         /\ SubSeq(attendance', 1, Len(attendance)) = attendance]_vars

\* C16 witness: the identity was checked out on the first day and has just
\* been checked in on the second.
C16_Witness ==
    /\ IsSubmit(req)
    /\ resp.action = "check-in"
    /\ Len(attendance) = 2
    /\ attendance[1].emp_id = HolderOf(req)
    /\ attendance[1].out_time # None
    /\ attendance[1].date < CurrentDate(now)
    /\ attendance[2].emp_id = HolderOf(req)
    /\ attendance[2].date = CurrentDate(now)

\* C17: registering a token that is already in the registry fails, returns
\* no key pair and leaves the registry, with the public key stored for that
\* token, unchanged; the reason is "already registered" whenever the form
\* carries the required display name.
C17_DuplicateRejected ==
    [][(/\ req'.op = "register"
        /\ \E i \in 1..Len(employees) : employees[i].emp_id = req'.emp_id) =>
         /\ ~resp'.success
         /\ req'.name # "" => resp'.message = DuplicateIdentity
         /\ resp'.public_key = ""
         /\ resp'.private_key = ""
         /\ employees' = employees]_vars

\* C17 witness: the first of two registered tokens has been registered again
\* and rejected.
C17_Witness ==
    /\ req.op = "register"
    /\ resp.message = DuplicateIdentity
    /\ Len(employees) = 2
    /\ employees[1].emp_id = req.emp_id

\* The identities registered with a public key.
OwnersOf(public_key) ==
    {employees[e].emp_id : e \in {x \in 1..Len(employees) :
                                    employees[x].public_key = public_key}}

\* C19: the reverse lookup resolves every registered public key to the
\* identity registered with it and every unregistered key to none; a
\* submission under an unregistered key is answered "Employee not
\* registered", and a check-in creates the record of the key's identity.
C19_ReverseLookup ==
    /\ \A i \in 1..Len(employees) :
         FindByPublicKey(employees, employees[i].public_key) = i
    /\ \A k \in {KeyPool[n] : n \in 1..Len(KeyPool)} \cup {OutsiderKey} :
         OwnersOf(k) = {} => FindByPublicKey(employees, k) = 0
    /\ (IsSubmit(req) /\ ~MissingData(req) /\ OwnersOf(req.public_key) = {})
         => resp.message = UnknownIdentity
    /\ (IsSubmit(req) /\ resp.action = "check-in")
         => OwnersOf(req.public_key) = {attendance[Len(attendance)].emp_id}

\* C19 witness: two identities are registered, "E2" first, and the holder
\* of the second entry's key has just been checked in under its own token.
C19_Witness ==
    /\ Len(employees) = 2
    /\ employees[1].emp_id = "E2"
    /\ IsSubmit(req)
    /\ req.public_key = employees[2].public_key
    /\ resp.action = "check-in"
    /\ attendance[Len(attendance)].emp_id = employees[2].emp_id

\* C20: a submission carries no identity token and touches only the
\* identity registered with the submitted public key: records of every
\* other identity are unchanged, no record is removed, an appended record
\* belongs to that identity, and the in-time reported is that of one of its
\* records.
C20_OnlyHolderAffected ==
    [][IsSubmit(req') =>
         /\ DOMAIN req' = {"op", "public_key", "employee_signature",
                           "server_qr", "confirm_checkout"}
         /\ Len(attendance') >= Len(attendance)
         /\ \A i \in 1..Len(attendance) :
              attendance[i].emp_id \notin OwnersOf(req'.public_key)
                => attendance'[i] = attendance[i]
         /\ \A i \in (Len(attendance) + 1)..Len(attendance') :
              attendance'[i].emp_id \in OwnersOf(req'.public_key)
         /\ resp'.in_time # None =>
              \E i \in 1..Len(attendance') :
                 /\ attendance'[i].emp_id \in OwnersOf(req'.public_key)
                 /\ attendance'[i].in_time = resp'.in_time]_vars

\* C20 witness: one identity has been checked out while the record of the
\* other identity, earlier in the ledger, is still open.
C20_Witness ==
    /\ IsSubmit(req)
    /\ resp.action = "check-out"
    /\ Len(attendance) = 2
    /\ attendance[2].emp_id \in OwnersOf(req.public_key)
    /\ attendance[2].out_timestamp = now
    /\ attendance[1].emp_id \notin OwnersOf(req.public_key)
    /\ attendance[1].date = attendance[2].date
    /\ attendance[1].out_time = None

\* C23: GET /api/attendance is read-only: it answers with the records of
\* the ledger and leaves the ledger, the registry, the replay guard (and the
\* clock and the issued challenges) as they were, so that whatever follows
\* a listing is answered as if the listing had not been made.
C23_ListIsReadOnly ==
    [][(req'.op = "list") =>
         /\ resp'.success
         /\ resp'.records = attendance
         /\ attendance' = attendance
         /\ employees' = employees
         /\ recent_qr_usage' = recent_qr_usage
         /\ now' = now
         /\ issued' = issued]_vars

\* C23 witness: a listing made while the ledger holds an open and a closed
\* record.
C23_Witness ==
    /\ req.op = "list"
    /\ resp.records = attendance
    /\ \E i, j \in 1..Len(attendance) :
         attendance[i].out_time = None /\ attendance[j].out_time # None

\* C24: after a submission without confirm_checkout has passed every
\* verification check, recent_qr_usage holds, for the holder and the slot
\* of the presented challenge, the time of the submission.
C24_GuardRecordsUse ==
    (IsSubmit(req) /\ FullyValid(req) /\ ~req.confirm_checkout)
    => /\ HolderOf(req) \in DOMAIN recent_qr_usage
       /\ req.server_qr.timestamp \in DOMAIN recent_qr_usage[HolderOf(req)]
       /\ recent_qr_usage[HolderOf(req)][req.server_qr.timestamp] = now

\* C25: the replay guard is keyed on the slot of the presented challenge:
\* once an identity has checked in with the challenge of slot S, the same
\* unmodified challenge presented again without confirm_checkout at a later
\* time, still within QR_GRACE_PERIOD of S but in another slot of the
\* server clock, is answered "QR code already used recently".
C25_KeyedOnPresentedSlot ==
    (/\ IsSubmit(req)
     /\ FullyValid(req)
     /\ ~req.confirm_checkout
     /\ req.server_qr = generate_qr_data(req.server_qr.timestamp)
     /\ \E i \in 1..Len(attendance) :
          /\ attendance[i].emp_id = HolderOf(req)
          /\ attendance[i].qr_timestamp = req.server_qr.timestamp
          /\ attendance[i].in_timestamp < now
          /\ get_time_slot(attendance[i].in_timestamp) # get_time_slot(now))
    => resp.message = AlreadyUsed

\* The request presents, unmodified, a challenge the server has issued,
\* signed over its message with the submitted key.
GenuineSubmission(r) ==
    /\ IsSubmit(r)
    /\ ~MissingData(r)
    /\ r.server_qr.timestamp \in issued
    /\ r.server_qr = generate_qr_data(r.server_qr.timestamp)
    /\ r.employee_signature = sign_message(r.public_key, r.server_qr.message)

\* The reasons of the identity, server-origin, server-signature, freshness
\* and holder-signature checks.
RejectionReasons ==
    {MissingRequiredData, UnknownIdentity, WrongServerReason,
     InvalidChallengeSignature, ChallengeExpired, InvalidHolderSignature}

\* C32: a challenge issued for slot S, signed by the holder of a registered
\* key and submitted unmodified at a time from its issue up to
\* S + QR_GRACE_PERIOD, is rejected by none of the identity, server-origin,
\* server-signature, freshness and holder-signature checks; when the
\* identity has no record for the day, the answer is a check-in.
C32_Completeness ==
    [][(/\ GenuineSubmission(req')
        /\ Registered(req')
        /\ now <= req'.server_qr.timestamp + QR_GRACE_PERIOD) =>
         /\ resp'.message \notin RejectionReasons
         /\ TodayRecords(HolderOf(req')) = {} => resp'.action = "check-in"]_vars

\* C32 witness: a genuine submission made exactly QR_GRACE_PERIOD after the
\* start of its slot is a check-in.
C32_Witness ==
    /\ GenuineSubmission(req)
    /\ Registered(req)
    /\ now = req.server_qr.timestamp + QR_GRACE_PERIOD
    /\ resp.action = "check-in"

\* C33: a fully valid submission with confirm_checkout made while the
\* identity has no record for the day is a check-in (a record without
\* out-time is appended, nothing is closed); and a fully valid submission
\* with confirm_checkout that presents the challenge the identity's open
\* record of today was made with is the check-out of that record.
C33_ConfirmWithoutRecord ==
    [][(IsSubmit(req') /\ FullyValid(req') /\ req'.confirm_checkout) =>
         /\ TodayRecords(HolderOf(req')) = {} =>
              /\ resp'.action = "check-in"
              /\ resp'.out_time = None
              /\ attendance' = Append(attendance, attendance'[Len(attendance')])
              /\ attendance'[Len(attendance')].emp_id = HolderOf(req')
              /\ attendance'[Len(attendance')].out_time = None
         /\ \A i \in TodayRecords(HolderOf(req')) :
              (attendance[i].out_time = None
                 /\ attendance[i].qr_timestamp = req'.server_qr.timestamp) =>
                /\ resp'.message # AlreadyUsed
                /\ resp'.action = "check-out"
                /\ attendance'[i].out_timestamp = now]_vars

\* C33 witness: the record that a confirm_checkout submission has closed
\* was opened with the same challenge, in an earlier slot of the clock.
C33_Witness ==
    /\ IsSubmit(req)
    /\ req.confirm_checkout
    /\ FullyValid(req)
    /\ resp.action = "check-out"
    /\ \E i \in TodayRecords(HolderOf(req)) :
         /\ attendance[i].qr_timestamp = req.server_qr.timestamp
         /\ attendance[i].out_timestamp = now
         /\ attendance[i].in_timestamp < now

\* A confirm_checkout submission without a record for the day has checked in.
C33_ReachedConfirmCheckIn ==
    /\ IsSubmit(req)
    /\ req.confirm_checkout
    /\ FullyValid(req)
    /\ resp.action = "check-in"

\* The calendar day a timestamp falls on.
DayOf(t) == t \div 86400

\* C34: every closed record has out-timestamp >= in-timestamp and a date
\* that is the day of both; and a check-out success leaves a record of the
\* identity for the day whose check-in is not later than the check-out.
C34_LedgerOrdering ==
    /\ \A i \in 1..Len(attendance) :
         attendance[i].out_timestamp # None =>
           /\ attendance[i].out_timestamp >= attendance[i].in_timestamp
           /\ attendance[i].date = DayOf(attendance[i].in_timestamp)
           /\ attendance[i].date = DayOf(attendance[i].out_timestamp)
    /\ (IsSubmit(req) /\ resp.action = "check-out") =>
         \E i \in 1..Len(attendance) :
           /\ attendance[i].emp_id = HolderOf(req)
           /\ attendance[i].date = DayOf(now)
           /\ attendance[i].in_timestamp <= now
           /\ attendance[i].out_timestamp = now

\* C34 witness: a check-out on the second day, later than its check-in,
\* while the ledger holds a record of the day before.
C34_Witness ==
    /\ IsSubmit(req)
    /\ resp.action = "check-out"
    /\ \E i, j \in 1..Len(attendance) :
         /\ attendance[i].out_timestamp = now
         /\ attendance[i].in_timestamp < now
         /\ attendance[j].date < attendance[i].date

\* C35: a submission changes no record whose date is not the current day:
\* a record left open when its day ended stays as it is, and a fully valid
\* confirm_checkout submission by an identity that has such a record, and
\* none for today, appends a check-in record for today.
C35_OnlyTodaysRecord ==
    [][IsSubmit(req') =>
         /\ Len(attendance') >= Len(attendance)
         /\ \A i \in 1..Len(attendance) :
              attendance[i].date # DayOf(now) => attendance'[i] = attendance[i]
         /\ (/\ FullyValid(req')
             /\ req'.confirm_checkout
             /\ TodayRecords(HolderOf(req')) = {}
             /\ \E i \in 1..Len(attendance) :
                  /\ attendance[i].emp_id = HolderOf(req')
                  /\ attendance[i].date < DayOf(now)
                  /\ attendance[i].out_time = None) =>
              /\ resp'.action = "check-in"
              /\ Len(attendance') = Len(attendance) + 1
              /\ attendance'[Len(attendance')].date = DayOf(now)
              /\ attendance'[Len(attendance')].emp_id = HolderOf(req')]_vars

\* C35 witness: today's record of the identity has been checked out while
\* its record of the day before is still open.
C35_Witness ==
    /\ IsSubmit(req)
    /\ req.confirm_checkout
    /\ resp.action = "check-out"
    /\ \E i, j \in 1..Len(attendance) :
         /\ attendance[i].emp_id = attendance[j].emp_id
         /\ attendance[i].date < DayOf(now)
         /\ attendance[i].out_time = None
         /\ attendance[j].date = DayOf(now)
         /\ attendance[j].out_timestamp = now

\* A confirm_checkout submission on the later day has checked in beside the
\* open record of the day before.
C35_ReachedConfirmCheckIn ==
    /\ IsSubmit(req)
    /\ req.confirm_checkout
    /\ resp.action = "check-in"
    /\ \E i \in 1..Len(attendance) :
         /\ attendance[i].emp_id = attendance[Len(attendance)].emp_id
         /\ attendance[i].date < DayOf(now)
         /\ attendance[i].out_time = None

----------------------------------------------------------------------------
(* Properties of concurrent requests (SpecConc) *)

ThreadDone(p) == threads[p].pc = "done"

\* The identity whose registry entry, as the thread read it, holds the key
\* of the thread's request.
ThreadHolders(p) ==
    {threads[p].emps[i].emp_id : i \in
        {j \in 1..Len(threads[p].emps) :
            threads[p].emps[j].public_key = threads[p].req.public_key}}

\* The thread has looked for today's record of its holder and found none:
\* it holds a ledger copy without such a record, or has answered check-in.
ObservedNoRecord(p) ==
    /\ threads[p].req # NoReq
    /\ IsSubmit(threads[p].req)
    /\ \/ /\ threads[p].pc = "att_loaded"
          /\ \A i \in 1..Len(threads[p].att) :
               ~(/\ threads[p].att[i].emp_id \in ThreadHolders(p)
                 /\ threads[p].att[i].date = CurrentDate(now))
       \/ /\ ThreadDone(p)
          /\ threads[p].resp.action = "check-in"

ThreadRegistered(p) ==
    /\ ThreadDone(p)
    /\ threads[p].req.op = "register"
    /\ threads[p].resp.success

\* C13: two concurrent valid check-in submissions of one identity never
\* both observe that the identity has no record today, and the ledger never
\* holds two records of one identity for one date.
C13_SameIdentitySerialized ==
    /\ \A p, q \in Procs :
         (/\ p # q
          /\ ObservedNoRecord(p)
          /\ ObservedNoRecord(q))
         => threads[p].req.public_key # threads[q].req.public_key
    /\ \A i, j \in 1..Len(attendance) :
         (attendance[i].emp_id = attendance[j].emp_id
            /\ attendance[i].date = attendance[j].date) => i = j

\* C14: when two concurrent submissions of different identities have both
\* been answered with a check-in, the ledger holds the record of each.
C14_BothRecordsPersist ==
    \A p, q \in Procs :
      (/\ p # q
       /\ ThreadDone(p) /\ ThreadDone(q)
       /\ IsSubmit(threads[p].req) /\ IsSubmit(threads[q].req)
       /\ threads[p].resp.action = "check-in"
       /\ threads[q].resp.action = "check-in"
       /\ threads[p].req.public_key # threads[q].req.public_key)
      => \E i \in 1..Len(attendance) :
           /\ attendance[i].emp_id \in ThreadHolders(p)
           /\ attendance[i].date = CurrentDate(now)
           /\ attendance[i].in_time = threads[p].resp.in_time

\* C18: of two concurrent registrations of one new token at most one
\* reports success, and once both are answered the registry holds, for the
\* token, the key returned to the successful registrant.
C18_KeyAssignedOnce ==
    /\ \A p, q \in Procs :
         (p # q /\ ThreadRegistered(p) /\ ThreadRegistered(q))
         => threads[p].req.emp_id # threads[q].req.emp_id
    /\ \A p \in Procs :
         (ThreadRegistered(p) /\ \A q \in Procs : ThreadDone(q))
         => \E i \in 1..Len(employees) :
              /\ employees[i].emp_id = threads[p].req.emp_id
              /\ employees[i].public_key = threads[p].resp.public_key

\* The thread has answered its submission with a check-out.
ThreadCheckedOut(p) ==
    /\ ThreadDone(p)
    /\ IsSubmit(threads[p].req)
    /\ threads[p].resp.action = "check-out"

\* C36: of two concurrent confirm_checkout submissions of one identity
\* whose record is open, at most one is answered with a check-out, and once
\* both are answered the ledger holds the out-time that check-out reported.
C36_CheckOutOnce ==
    /\ \A p, q \in Procs :
         (p # q /\ ThreadCheckedOut(p) /\ ThreadCheckedOut(q))
         => threads[p].req.public_key # threads[q].req.public_key
    /\ \A p \in Procs :
         (ThreadCheckedOut(p) /\ \A q \in Procs : ThreadDone(q))
         => \E i \in 1..Len(attendance) :
              /\ attendance[i].emp_id \in ThreadHolders(p)
              /\ attendance[i].date = CurrentDate(now)
              /\ attendance[i].out_time = threads[p].resp.out_time

----------------------------------------------------------------------------
(* Properties of the handler on request bodies (SpecWire) *)

\* The answers that carry a reason or a status of the protocol.
StructuredMessages ==
    {MissingRequiredData, CheckInSuccessful, CheckOutSuccessful,
     ConfirmationRequired, AlreadyCheckedOutToday}
    \cup {PipelineReasons[i] : i \in 1..Len(PipelineReasons)}

\* C21: every submission, malformed ones included (undecodable key or
\* signature, missing or non-integer timestamp, server_qr that is not an
\* object), is answered with a structured result carrying one of the
\* reasons; no decoding or type error escapes the handler.
C21_StructuredFailure ==
    (req.op = "post") => resp.message \in StructuredMessages

----------------------------------------------------------------------------
(* Properties of the server key pair across restarts (SpecBoot) *)

\* The server-origin and server-signature checks of the handler, made with
\* the keys a process holds.
ServerChecksPass(keys, qr) ==
    /\ qr.server_public_key = keys.public_key
    /\ qr.signature = sign_message(keys.public_key, qr.message)

\* C22: while keys/server_keys.json exists the server identity is the one
\* created on first boot: the file is never rewritten, a key pair is
\* generated only by a boot that finds no file, every other boot loads the
\* public key of the file, and every challenge issued under the file passes
\* the server-origin and server-signature checks of the running process.
C22_ServerIdentityStable ==
    [][/\ (server.file_exists /\ server'.file_exists)
            => server'.file = server.file
       /\ (server'.generated # server.generated)
            => (~server.file_exists /\ server'.file_exists)
       /\ (~server.up /\ server'.up /\ server.file_exists)
            => server'.keys.public_key = server.file.public_key
       /\ server'.up
            => \A c \in server'.shown : ServerChecksPass(server'.keys, c.qr)]_vars

\* A process restarted under the same file holds a challenge that an
\* earlier process issued.
C22_Witness ==
    /\ server.up
    /\ server.boots > 1
    /\ \E c \in server.shown : c.boot < server.boots

----------------------------------------------------------------------------
(* Properties of the handlers on a given state (SpecGuard) *)

\* The submission passes every check that precedes the replay test.
ReachesReplayCheck(r) ==
    /\ ~MissingData(r)
    /\ Registered(r)
    /\ ServerOriginOk(r)
    /\ ServerSignatureOk(r)
    /\ Fresh(r)

\* recent_qr_usage holds an entry for the identity and the slot.
HasEntry(emp_id, slot) ==
    /\ emp_id \in DOMAIN recent_qr_usage
    /\ slot \in DOMAIN recent_qr_usage[emp_id]

EntryAge(emp_id, slot) == now - recent_qr_usage[emp_id][slot]

\* The request presents the challenge of the slot the server clock is in.
PresentsCurrentSlot(r) == r.server_qr.timestamp = get_time_slot(now)

\* C26: with confirm_checkout the replay guard is not consulted: whatever
\* recent_qr_usage holds, a submission that has passed the checks before
\* the replay test is never answered "QR code already used recently", and
\* its answer is "Invalid employee signature" exactly when the holder's
\* signature does not verify.
C26_ConfirmSkipsGuard ==
    (IsSubmit(req) /\ req.confirm_checkout /\ ReachesReplayCheck(req))
    => /\ resp.message # AlreadyUsed
       /\ (resp.message = InvalidHolderSignature) <=> ~HolderSignatureOk(req)

\* C26 witness: the guard holds a use of the presented slot by the holder,
\* made within the reuse window, and the confirmed submission checks out.
C26_Witness ==
    /\ IsSubmit(req)
    /\ req.confirm_checkout
    /\ ReachesReplayCheck(req)
    /\ PresentsCurrentSlot(req)
    /\ HasEntry(HolderOf(req), req.server_qr.timestamp)
    /\ EntryAge(HolderOf(req), req.server_qr.timestamp) < QR_REUSE_WINDOW
    /\ resp.action = "check-out"

C27_ReachedBlocked ==
    /\ IsSubmit(req)
    /\ ~req.confirm_checkout
    /\ ReachesReplayCheck(req)
    /\ PresentsCurrentSlot(req)
    /\ HasEntry(HolderOf(req), req.server_qr.timestamp)
    /\ EntryAge(HolderOf(req), req.server_qr.timestamp) = QR_REUSE_WINDOW - 1
    /\ resp.message = AlreadyUsed

\* C29: the challenge issued at time now carries the slot start S, the
\* multiple of INTERVAL with S <= now < S + INTERVAL, the message
\* "attendance:S:<server key>" and the server's signature of it; issuances
\* at times of the same slot yield the same payload, and issuances in
\* different slots yield different messages.
C29_SlotQuantization ==
    (req.op = "qr") =>
      LET q == resp.qr
      IN /\ q.timestamp % INTERVAL = 0
         /\ q.timestamp <= now
         /\ now < q.timestamp + INTERVAL
         /\ q.message = <<"attendance", q.timestamp, ServerKey>>
         /\ q.server_public_key = ServerKey
         /\ q.signature = sign_message(ServerKey, q.message)
         /\ q.timestamp \in issued
         /\ \A t \in GuardClock :
              IF t \div INTERVAL = now \div INTERVAL
              THEN generate_qr_data(t) = q
              ELSE generate_qr_data(t).message # q.message

\* C29 witness: a challenge issued in the middle of a slot, while the clock
\* set holds another time of the same slot and a time of the next slot.
C29_Witness ==
    /\ req.op = "qr"
    /\ now % INTERVAL # 0
    /\ resp.qr.timestamp < now
    /\ \E t \in GuardClock : t # now /\ t \div INTERVAL = now \div INTERVAL
    /\ \E t \in GuardClock : t \div INTERVAL # now \div INTERVAL

\* C30: a challenge issued for slot S passes the freshness check only at
\* times between S - QR_GRACE_PERIOD and S + QR_GRACE_PERIOD + INTERVAL, a
\* window of 2 * QR_GRACE_PERIOD + INTERVAL seconds.
C30_ValidityWindowBounded ==
    (/\ IsSubmit(req)
     /\ ~MissingData(req)
     /\ Registered(req)
     /\ ServerOriginOk(req)
     /\ ServerSignatureOk(req)
     /\ resp.message # ChallengeExpired)
    => /\ MessageSlot(req.server_qr.message) - now <= QR_GRACE_PERIOD
       /\ now - MessageSlot(req.server_qr.message) <= QR_GRACE_PERIOD + INTERVAL

\* C31: the replay guard is per identity: a submission that has passed the
\* checks before the replay test, by an identity for which the guard holds
\* no entry, is never answered "QR code already used recently", whatever
\* the guard holds for other identities; when it is fully valid and the
\* identity has made no submission today, it is a check-in, also when
\* another identity has already checked in with the same challenge.
C31_ReplayScopePerIdentity ==
    (/\ IsSubmit(req)
     /\ ReachesReplayCheck(req)
     /\ HolderOf(req) \notin DOMAIN recent_qr_usage)
    => /\ resp.message # AlreadyUsed
       /\ (/\ HolderSignatureOk(req)
           /\ \A i \in 1..Len(attendance) :
                attendance[i].emp_id = HolderOf(req)
                  => attendance[i].in_timestamp = now /\ attendance[i].out_time = None
           /\ resp.message # ConfirmationRequired)
          => resp.action = "check-in"

\* C31 witness: an identity checks in with the challenge of the slot while
\* the guard holds a use of that slot, within the reuse window, by another
\* identity, which has checked in with the same challenge.
C31_Witness ==
    /\ IsSubmit(req)
    /\ ReachesReplayCheck(req)
    /\ PresentsCurrentSlot(req)
    /\ resp.action = "check-in"
    /\ HolderOf(req) \notin DOMAIN recent_qr_usage
    /\ \E e \in DOMAIN recent_qr_usage :
         /\ e # HolderOf(req)
         /\ HasEntry(e, req.server_qr.timestamp)
         /\ EntryAge(e, req.server_qr.timestamp) < QR_REUSE_WINDOW
         /\ \E i \in 1..Len(attendance) :
              /\ attendance[i].emp_id = e
              /\ attendance[i].qr_timestamp = req.server_qr.timestamp

\* The identities checked in with one challenge in the other order: the
\* later record belongs to the identity registered first.
C31_ReachedOtherOrder ==
    /\ IsSubmit(req)
    /\ resp.action = "check-in"
    /\ Len(attendance) = 2
    /\ attendance[2].emp_id = employees[1].emp_id
    /\ attendance[1].emp_id = employees[2].emp_id
    /\ attendance[1].qr_timestamp = attendance[2].qr_timestamp

----------------------------------------------------------------------------
(* Properties of the lookup on registries with a shared key (SpecRegistry) *)

\* Positions of the registry entries that hold the key.
EntriesWithKey(public_key) ==
    {i \in 1..Len(employees) : employees[i].public_key = public_key}

\* Two entries of the registry hold the key of the request.
SharedKey(r) ==
    \E i, j \in EntriesWithKey(r.public_key) : i # j

====
